---------------------------- MODULE Spec2Model ----------------------------
(***************************************************************************)
(* A model of piet-gpu's RenderContext (crates/piet-gpu/src/lib.rs): the   *)
(* render state stack, the status accumulator, the shared vertex/index     *)
(* buffer and the calls it makes on the GpuContext backend.                *)
(***************************************************************************)
EXTENDS Integers, Sequences, FiniteSets, TLC

(***************************************************************************)
(* Bounds of the model.                                                    *)
(***************************************************************************)
\* Largest number of entries of the state stack (save is capped there).
MaxDepth == 3
\* Largest absolute value of a coefficient of a transform.
MaxCoord == 2
\* Largest number of GpuContext::push_buffers calls recorded.
MaxLog == 2
\* Largest number of vertices left in the shared buffer by failed pushes.
MaxStale == 4
\* Largest number of Shader::new calls made.
MaxCompiles == 6
\* Largest number of holders of one texture, and of Images made.
MaxHolders == 2
\* Largest number of Sources built on the context besides the one drawn with.
MaxSources == 2

\* Largest number of path elements the converter is fed.
MaxPath == 4

VARIABLES
    state,      \* RenderContext.state: the stack of RenderState entries
    status,     \* RenderContext.status: the error accumulator
    ret,        \* what the last API call returned
    aborted,    \* TRUE once a call has panicked (the context is unwound)
    vertices,   \* Source.buffers.vertex_buffers.vertices
    indices,    \* Source.buffers.vertex_buffers.indices
    pushed,     \* the GpuContext::push_buffers calls, in the order received
    textures,   \* the backend's live texture handles and their contents
    atlas,      \* Source.atlas: the glyph atlas, or empty while it is checked out
    images,     \* the texture handles of the Images the caller holds
    brushes,    \* piet-glow's Brushes: the shader cache and the compilations made
    rc,         \* the strong counts of the Rc<Texture>s: the holders of each shared texture
    converter,  \* a PathConverter at work, and the events it has emitted
    sources,    \* the other Sources on the context, its vertex buffers, and the calls of the last from_rc
    saved       \* history: the active entry as it was right before each open save

vars == <<state, status, ret, aborted, vertices, indices, pushed, textures,
          atlas, images, brushes, rc, converter, sources, saved>>

(***************************************************************************)
(* kurbo::Affine, as the six coefficients [a, b, c, d, e, f]:              *)
(*   x' = a*x + c*y + e,  y' = b*x + d*y + f.                              *)
(***************************************************************************)
IDENTITY == <<1, 0, 0, 1, 0, 0>>

\* `self * other` of kurbo::Affine: the map that applies other, then self.
AffineMul(s, o) ==
    << s[1] * o[1] + s[3] * o[2],
       s[2] * o[1] + s[4] * o[2],
       s[1] * o[3] + s[3] * o[4],
       s[2] * o[3] + s[4] * o[4],
       s[1] * o[5] + s[3] * o[6] + s[5],
       s[2] * o[5] + s[4] * o[6] + s[6] >>

\* `affine * point`.
AffineApply(m, p) ==
    << m[1] * p[1] + m[3] * p[2] + m[5],
       m[2] * p[1] + m[4] * p[2] + m[6] >>

Translate1 == <<1, 0, 0, 1, 1, 0>>
Scale2 == <<2, 0, 0, 2, 0, 0>>
\* The transforms the caller passes to transform().
Transforms == {Translate1, Scale2}

InCoordRange(m) == \A i \in 1..6 : m[i] >= -MaxCoord /\ m[i] <= MaxCoord

(***************************************************************************)
(* Shapes and their rasterization onto the viewport.                       *)
(***************************************************************************)
\* RenderContext.size: the width and height passed to render_context.
size == <<2, 2>>

Pixels == (0..(size[1] - 1)) \X (0..(size[2] - 1))

RectA == [x0 |-> 0, y0 |-> 0, x1 |-> 1, y1 |-> 2]
RectB == [x0 |-> 0, y0 |-> 0, x1 |-> 2, y1 |-> 1]
RectC == [x0 |-> 1, y0 |-> 0, x1 |-> 2, y1 |-> 2]
\* The shapes the caller passes to clip().
Shapes == {RectA, RectB, RectC}

Min2(a, b) == IF a <= b THEN a ELSE b
Max2(a, b) == IF a >= b THEN a ELSE b

\* `transform * path` for a rectangle path: its corners are mapped.
TransformShape(t, r) ==
    LET p == AffineApply(t, <<r.x0, r.y0>>)
        q == AffineApply(t, <<r.x1, r.y1>>)
    IN  [x0 |-> Min2(p[1], q[1]), y0 |-> Min2(p[2], q[2]),
         x1 |-> Max2(p[1], q[1]), y1 |-> Max2(p[2], q[2])]

\* The pixels of the viewport a device-space path covers (no anti-aliasing).
Coverage(r) ==
    {px \in Pixels : r.x0 <= px[1] /\ px[1] < r.x1 /\ r.y0 <= px[2] /\ px[2] < r.y1}

(***************************************************************************)
(* Render state.                                                           *)
(***************************************************************************)
\* Option<Mask>::None.
NoMask == [present |-> FALSE, texture |-> 0, mask |-> {}, dirty |-> FALSE]

\* RenderState::default().
RenderStateDefault == [transform |-> IDENTITY, mask |-> NoMask]

Top == state[Len(state)]

\* The state stack with its first entry replaced (first_mut for last_mut).
WithBottom(e) == [state EXCEPT ![1] = e]

\* The state stack with its last entry replaced.
WithTop(e) == [state EXCEPT ![Len(state)] = e]

(***************************************************************************)
(* Backend textures.  Handle 0 is Source.white_pixel, handle 1 the atlas   *)
(* texture; create_texture hands out the lowest handle not in use.         *)
(***************************************************************************)
WhitePixel == 0
AtlasTexture == 1

Unwritten == [written |-> FALSE, data |-> {}]

NewTexture == CHOOSE h \in 0..(Cardinality(DOMAIN textures) + 1) : h \notin DOMAIN textures

\* GpuContext::create_texture succeeded with handle h.
CreateTexture(h) == (h :> Unwritten) @@ textures

\* GpuContext::delete_texture(h).
DeleteTexture(tex, h) == [k \in (DOMAIN tex) \ {h} |-> tex[k]]

(***************************************************************************)
(* The resource wrappers of define_resource_wrappers!: a wrapper holds the *)
(* backend handle in an Option and hands it to the context's delete call   *)
(* when it is dropped.  deleted lists the delete calls a drop made.        *)
(***************************************************************************)
\* Texture::from_raw: a wrapper that owns handle h.
from_raw(h) == [some |-> TRUE, resource |-> h]

\* A drop that leaves the handle in the wrapper.
drop_keep(w, tex) ==
    IF w.some
    THEN [wrapper |-> w,
          textures |-> DeleteTexture(tex, w.resource), deleted |-> <<w.resource>>]
    ELSE [wrapper |-> w, textures |-> tex, deleted |-> <<>>]

\* Drop for Texture: resource.take(), and delete_texture if it held a handle.
drop(w, tex) ==
    IF w.some
    THEN [wrapper |-> [w EXCEPT !.some = FALSE],
          textures |-> DeleteTexture(tex, w.resource), deleted |-> <<w.resource>>]
    ELSE [wrapper |-> w, textures |-> tex, deleted |-> <<>>]

\* Rc::clone of the Rc<Texture> over handle h: one more holder.
RcClone(c, h) == [c EXCEPT ![h] = @ + 1]

\* An Rc drop that drops the Texture whether or not other holders remain.
RcDropEach(c, tex, h) ==
    IF c[h] > 1
    THEN [rc |-> [c EXCEPT ![h] = @ - 1],
          textures |-> drop(from_raw(h), tex).textures, deleted |-> <<h>>]
    ELSE [rc |-> [k \in (DOMAIN c) \ {h} |-> c[k]],
          textures |-> drop(from_raw(h), tex).textures, deleted |-> <<h>>]

\* Dropping one Rc<Texture> over handle h: the Texture is dropped with the
\* last holder.
RcDrop(c, tex, h) ==
    IF c[h] > 1
    THEN [rc |-> [c EXCEPT ![h] = @ - 1], textures |-> tex, deleted |-> <<>>]
    ELSE [rc |-> [k \in (DOMAIN c) \ {h} |-> c[k]],
          textures |-> drop(from_raw(h), tex).textures, deleted |-> <<h>>]

(***************************************************************************)
(* Source::from_rc builds a Source over a context that may carry others.   *)
(* live are the Sources built besides the one the RenderContext draws      *)
(* with, vbos the context's live vertex buffers, and log the create and    *)
(* delete calls the last from_rc made.                                     *)
(***************************************************************************)
\* The vertex buffer of the Source the RenderContext draws with.
SourceBuffer == 0

SourcesInit == [live |-> {}, vbos |-> {SourceBuffer}, log |-> <<>>]

\* GpuContext::create_texture and create_vertex_buffer hand out a free handle.
NewTextureIn(tex) ==
    CHOOSE h \in 0..(Cardinality(DOMAIN tex) + 1) : h \notin DOMAIN tex
NewBuffer == CHOOSE b \in 0..(Cardinality(sources.vbos) + 1) : b \notin sources.vbos

\* A drop of the VertexBuffer wrapper that never calls the context.
drop_vbo_never(w, bufs) ==
    [wrapper |-> [w EXCEPT !.some = FALSE], vbos |-> bufs, deleted |-> <<>>]

\* Drop for VertexBuffer: resource.take(), and delete_vertex_buffer if it
\* held a handle.
drop_vbo(w, bufs) ==
    IF w.some
    THEN [wrapper |-> [w EXCEPT !.some = FALSE],
          vbos |-> bufs \ {w.resource}, deleted |-> <<w.resource>>]
    ELSE [wrapper |-> w, vbos |-> bufs, deleted |-> <<>>]

\* A call the context received, and the calls of one kind for handles hs.
Call(name, h) == [call |-> name, handle |-> h]
Calls(name, hs) == [i \in 1..Len(hs) |-> Call(name, hs[i])]

(***************************************************************************)
(* The PathConverter of shape_to_lyon_path: kurbo path elements in, lyon   *)
(* path events out.  Coordinates are whole numbers of 1/PerUnit, so that   *)
(* points closer than approx_eq's 0.01 and yet different exist.            *)
(***************************************************************************)
PerUnit == 200

Abs(x) == IF x < 0 THEN -x ELSE x

\* approx_eq that takes only equal coordinates for equal.
approx_eq_exact(a, b) == a = b

\* approx_eq: (a - b).abs() < 0.01.
approx_eq(a, b) == Abs(a - b) * 100 < PerUnit

NoPoint == [some |-> FALSE, pt |-> <<0, 0>>]
SomePoint(p) == [some |-> TRUE, pt |-> p]

\* The points of the paths: the origin, a point 0.005 off it in both
\* coordinates and a point 0.01 off it in x.
Origin == <<0, 0>>
Near == <<1, 1>>
Far == <<2, 0>>
Points == {Origin, Near, Far}

\* kurbo::PathEl, and None for the end of the input.
MoveTo(p) == [el |-> "MoveTo", pt |-> p]
LineTo(p) == [el |-> "LineTo", pt |-> p]
QuadTo(c, p) == [el |-> "QuadTo", ctrl1 |-> c, pt |-> p]
CurveTo(c, d, p) == [el |-> "CurveTo", ctrl1 |-> c, ctrl2 |-> d, pt |-> p]
ClosePath == [el |-> "ClosePath"]
NoElement == [el |-> "None"]
PathEls == {MoveTo(q) : q \in Points} \cup {LineTo(q) : q \in Points}
              \cup {QuadTo(Far, Origin), CurveTo(Origin, Near, Far), ClosePath}

\* lyon's PathEvent.
Begin(p) == [type |-> "Begin", at |-> p]
Line(p, q) == [type |-> "Line", from |-> p, to |-> q]
Quadratic(p, c, q) == [type |-> "Quadratic", from |-> p, ctrl |-> c, to |-> q]
Cubic(p, c, d, q) == [type |-> "Cubic", from |-> p, ctrl1 |-> c, ctrl2 |-> d, to |-> q]
End(l, f, c) == [type |-> "End", last |-> l, first |-> f, close |-> c]

\* The converter shape_to_lyon_path builds.  fed counts the elements taken
\* from the input, head is the kind of the first of them, fused tells that
\* the input has ended, finished that next has returned None, and events are
\* the events emitted so far.
PathConverterNew ==
    [first |-> NoPoint, last |-> NoPoint, needs_close |-> FALSE,
     fed |-> 0, head |-> "None", fused |-> FALSE, finished |-> FALSE, events |-> <<>>]

\* A close closure that goes by needs_close alone and leaves it set.
close_stale(this, cl) ==
    LET taken == [this EXCEPT !.first = NoPoint, !.last = NoPoint]
    IN  IF this.first.some /\ this.last.some /\ (this.needs_close \/ cl)
        THEN [this |-> taken, out |-> <<End(this.last.pt, this.first.pt, cl)>>]
        ELSE [this |-> taken, out |-> <<>>]

\* The closure close of PathConverter::next: first and last are taken, and
\* an End is emitted when they are apart and an edge or a close asks for it.
close(this, cl) ==
    LET taken == [this EXCEPT !.first = NoPoint, !.last = NoPoint]
    IN  IF /\ this.first.some /\ this.last.some
           /\ (\/ ~approx_eq(this.first.pt[1], this.last.pt[1])
               \/ ~approx_eq(this.first.pt[2], this.last.pt[2]))
           /\ (this.needs_close \/ cl)
        THEN [this |-> [taken EXCEPT !.needs_close = FALSE],
              out |-> <<End(this.last.pt, this.first.pt, cl)>>]
        ELSE [this |-> taken, out |-> <<>>]

\* The event of an edge element el that starts at point from.
EdgeEvent(el, from) ==
    CASE el.el = "LineTo" -> Line(from, el.pt)
      [] el.el = "QuadTo" -> Quadratic(from, el.ctrl1, el.pt)
      [] el.el = "CurveTo" -> Cubic(from, el.ctrl1, el.ctrl2, el.pt)

(***************************************************************************)
(* piet-glow's shader cache (src/brush.rs): Brushes.shaders maps a         *)
(* ShaderKey to the Program linked for it.  compiles counts the            *)
(* Shader::new calls made so far, programs the programs linked; a program  *)
(* is named by its place in the order of linking.                          *)
(***************************************************************************)
\* HashMap::new().
EmptyMap == [k \in {} |-> {}]

InputType == {"Solid", "Linear", "Radial", "Texture"}
MaskType == {"NoMask", "Texture"}
ShaderKey == [input_type : InputType, mask_type : MaskType, write_to_mask : BOOLEAN]

\* Brushes::new().  failed remembers the key of the last lookup that ended in
\* a compile or link error, if any.
BrushesNew == [shaders |-> EmptyMap, compiles |-> 0, programs |-> 0, failed |-> {}]

\* FragmentBuilder::with_input_type reaches a todo!() for these input types.
Unfinished(ty) == ty \in {"Linear", "Radial"}

(***************************************************************************)
(* Source::render_context over a Source built by Source::from_rc.          *)
(***************************************************************************)
Init ==
    /\ state = <<RenderStateDefault>>
    /\ status = "Ok"
    /\ ret = "Unit"
    /\ aborted = FALSE
    /\ vertices = <<>>
    /\ indices = <<>>
    /\ pushed = <<>>
    /\ textures = (WhitePixel :> [written |-> TRUE, data |-> {<<0, 0>>}])
                  @@ (AtlasTexture :> Unwritten)
    /\ atlas = [some |-> TRUE, glyphs |-> <<>>, allocator |-> {}]
    /\ images = {}
    /\ brushes = BrushesNew
    /\ rc = (AtlasTexture :> 1)
    /\ converter = PathConverterNew
    /\ sources = SourcesInit
    /\ saved = <<>>

(***************************************************************************)
(* RenderContext::save.                                                    *)
(***************************************************************************)
SavedEntry == RenderStateDefault

save ==
    /\ ~aborted
    /\ Len(state) < MaxDepth
    /\ state' = Append(state, SavedEntry)
    /\ saved' = Append(saved, Top)
    /\ ret' = "Ok"
    /\ UNCHANGED <<status, aborted, vertices, indices, pushed, textures, atlas, images, brushes, sources, rc, converter>>

(***************************************************************************)
(* RenderContext::restore.                                                 *)
(***************************************************************************)
\* Dropping a RenderState drops its Mask, whose Texture deletes its handle.
DropState(e) ==
    IF e.mask.present THEN drop(from_raw(e.mask.texture), textures).textures ELSE textures

\* restore with its guard off by one: the base entry is popped too.
restore_past_base ==
    /\ ~aborted
    /\ IF Len(state) < 1
       THEN /\ ret' = "StackUnbalance"
            /\ UNCHANGED <<state, saved, textures>>
       ELSE /\ state' = SubSeq(state, 1, Len(state) - 1)
            /\ saved' = SubSeq(saved, 1, Len(saved) - 1)
            /\ textures' = DropState(Top)
            /\ ret' = "Ok"
    /\ UNCHANGED <<status, aborted, vertices, indices, pushed, atlas, images, brushes, sources, rc, converter>>

restore ==
    /\ ~aborted
    /\ IF Len(state) <= 1
       THEN /\ ret' = "StackUnbalance"
            /\ UNCHANGED <<state, saved, textures>>
       ELSE /\ state' = SubSeq(state, 1, Len(state) - 1)
            /\ saved' = SubSeq(saved, 1, Len(saved) - 1)
            /\ textures' = DropState(Top)
            /\ ret' = "Ok"
    /\ UNCHANGED <<status, aborted, vertices, indices, pushed, atlas, images, brushes, sources, rc, converter>>

(***************************************************************************)
(* RenderContext::transform and current_transform.                         *)
(***************************************************************************)
current_transform == Top.transform

\* The operands the other way round: *slot * transform.
ComposeRight(m, slot) == AffineMul(slot, m)

Compose(m, slot) == AffineMul(m, slot)

transform(m) ==
    /\ ~aborted
    /\ InCoordRange(Compose(m, Top.transform))
    /\ state' = WithTop([Top EXCEPT !.transform = Compose(m, Top.transform)])
    /\ ret' = "Unit"
    /\ UNCHANGED <<status, aborted, vertices, indices, pushed, textures, atlas, images, brushes, sources, rc, converter, saved>>

(***************************************************************************)
(* RenderContext::status.                                                  *)
(***************************************************************************)
\* The accumulator read without being replaced.
StatusKept == status

StatusAfterRead == "Ok"

Status ==
    /\ ~aborted
    /\ ret' = status
    /\ status' = StatusAfterRead
    /\ UNCHANGED <<state, aborted, vertices, indices, pushed, textures, atlas, images, brushes, sources, rc, converter, saved>>

(***************************************************************************)
(* Mask::upload.  With the mask dirty the call reaches the todo!() that    *)
(* stands for the pixel data and panics before the texture is written and  *)
(* before the dirty flag is reset.                                         *)
(***************************************************************************)
upload(m) ==
    IF m.dirty
    THEN [result |-> "Panic", mask |-> m]
    ELSE [result |-> "Ok", mask |-> m]

(***************************************************************************)
(* RenderContext::push_buffers, on the buffer contents vs/is.  op names    *)
(* the API call and own the number of vertices that call generated; both   *)
(* are recorded with the backend call.  pushOk is the backend's answer.    *)
(***************************************************************************)
\* The atlas texture passed as mask_texture when there is no mask.
MaskTextureAtlas(e) == IF e.mask.present THEN e.mask.texture ELSE AtlasTexture

\* The texture handle passed as mask_texture.
MaskTexture(e) == IF e.mask.present THEN e.mask.texture ELSE WhitePixel

\* The shared buffers after a successful GpuContext::push_buffers.
BuffersAfterPush(vs) == <<>>

\* push_buffers that submits the buffers a second time.
push_buffers_twice(vs, is, texture, op, own, pushOk) ==
    LET up == IF Top.mask.present THEN upload(Top.mask) ELSE [result |-> "Ok", mask |-> NoMask]
        call == [op |-> op, nv |-> Len(vs), own |-> own, indices |-> is,
                 texture |-> texture, mask |-> MaskTexture(Top)]
    IN  IF up.result = "Panic"
        THEN [result |-> "Panic", vertices |-> vs, indices |-> is,
              pushed |-> pushed]
        ELSE IF ~pushOk
        THEN [result |-> "BackendError", vertices |-> vs, indices |-> is,
              pushed |-> Append(pushed, call)]
        ELSE [result |-> "Ok", vertices |-> BuffersAfterPush(vs), indices |-> BuffersAfterPush(is),
              pushed |-> Append(Append(pushed, call), call)]

push_buffers(vs, is, texture, op, own, pushOk) ==
    LET up == IF Top.mask.present THEN upload(Top.mask) ELSE [result |-> "Ok", mask |-> NoMask]
        call == [op |-> op, nv |-> Len(vs), own |-> own, indices |-> is,
                 texture |-> texture, mask |-> MaskTexture(Top)]
    IN  IF up.result = "Panic"
        THEN [result |-> "Panic", vertices |-> vs, indices |-> is,
              pushed |-> pushed]
        ELSE IF ~pushOk
        THEN [result |-> "BackendError", vertices |-> vs, indices |-> is,
              pushed |-> Append(pushed, call)]
        ELSE [result |-> "Ok", vertices |-> BuffersAfterPush(vs), indices |-> BuffersAfterPush(is),
              pushed |-> Append(pushed, call)]

\* A call that returned early, before anything was written or pushed.
EarlyReturn(err) ==
    [result |-> err, vertices |-> vertices, indices |-> indices,
     pushed |-> pushed]

(***************************************************************************)
(* The tessellators (lyon), a black box: they fail, leaving the buffers as *)
(* they were, or append a mesh whose indices point at its own vertices.    *)
(***************************************************************************)
Quad == [nv |-> 4, idx |-> <<0, 1, 2, 0, 2, 3>>]
Meshes == {Quad}

\* n vertices, each standing for its place in the mesh that produced it.
MeshVertices(n) == [i \in 1..n |-> (i - 1) % 4]
Offset(idx, by) == [i \in 1..Len(idx) |-> idx[i] + by]

\* fill_impl that does nothing while the status holds an error.
fill_impl_disabled(op, mesh, tessOk, texture, pushOk) ==
    IF status # "Ok"
    THEN EarlyReturn("Ok")
    ELSE IF ~tessOk
    THEN EarlyReturn("BackendError")
    ELSE push_buffers(vertices \o MeshVertices(mesh.nv),
                      indices \o Offset(mesh.idx, Len(vertices)),
                      texture, op, mesh.nv, pushOk)

\* RenderContext::fill_impl: tessellate into the shared buffers, then push.
fill_impl(op, mesh, tessOk, texture, pushOk) ==
    IF ~tessOk
    THEN EarlyReturn("BackendError")
    ELSE push_buffers(vertices \o MeshVertices(mesh.nv),
                      indices \o Offset(mesh.idx, Len(vertices)),
                      texture, op, mesh.nv, pushOk)

\* stroke_impl that refuses dashes only after the stroke has been built and
\* pushed.
stroke_impl_late(op, dashed, mesh, tessOk, texture, pushOk) ==
    LET r == fill_impl(op, mesh, tessOk, texture, pushOk)
    IN  IF dashed /\ r.result = "Ok" THEN [r EXCEPT !.result = "NotSupported"] ELSE r

\* RenderContext::stroke_impl: dashes are refused before anything is built.
stroke_impl(op, dashed, mesh, tessOk, texture, pushOk) ==
    IF dashed
    THEN EarlyReturn("NotSupported")
    ELSE fill_impl(op, mesh, tessOk, texture, pushOk)

\* Indices for n rectangles that count the vertices from one.
RectIndicesFromOne(n) ==
    [k \in 1..(6 * n) |->
        LET base == ((k - 1) \div 6) * 4
            j == (k - 1) % 6
        IN  base + (CASE j = 0 -> 1 [] j = 1 -> 2 [] j = 2 -> 3
                      [] j = 3 -> 1 [] j = 4 -> 3 [] OTHER -> 4)]

\* The indices fill_rects generates for n rectangles.
RectIndices(n) ==
    [k \in 1..(6 * n) |->
        LET base == ((k - 1) \div 6) * 4
            j == (k - 1) % 6
        IN  base + (CASE j = 0 -> 0 [] j = 1 -> 1 [] j = 2 -> 2
                      [] j = 3 -> 0 [] j = 4 -> 2 [] OTHER -> 3)]

\* RenderContext::fill_rects for n rectangles.
fill_rects(op, n, texture, pushOk) ==
    push_buffers(vertices \o MeshVertices(4 * n), indices \o RectIndices(n),
                 texture, op, 4 * n, pushOk)

(***************************************************************************)
(* The drawing calls of piet::RenderContext.  Each returns (); a failure   *)
(* is stored into the status accumulator.                                  *)
(***************************************************************************)
\* The accumulator after a drawing call failed with err.
Record(old, err) == err

\* A drawing call that stores its outcome in the status, Ok included.
FinishAssign(r) ==
    /\ vertices' = r.vertices
    /\ indices' = r.indices
    /\ pushed' = r.pushed
    /\ aborted' = (r.result = "Panic")
    /\ status' = IF r.result = "Panic" THEN status ELSE r.result
    /\ ret' = IF r.result = "Panic" THEN "Panic" ELSE "Unit"
    /\ UNCHANGED <<state, saved>>

\* What a drawing call leaves behind, given its implementation's outcome r.
Finish(r) ==
    /\ vertices' = r.vertices
    /\ indices' = r.indices
    /\ pushed' = r.pushed
    /\ aborted' = (r.result = "Panic")
    /\ status' = IF r.result \in {"Ok", "Panic"} THEN status ELSE Record(status, r.result)
    /\ ret' = IF r.result = "Panic" THEN "Panic" ELSE "Unit"
    /\ UNCHANGED <<state, saved>>

\* Room for one more recorded push, and for the geometry a failed push leaves.
CanDraw == ~aborted /\ Len(pushed) < MaxLog

CanFail(pushOk) == pushOk \/ Len(vertices) < MaxStale

fill(mesh, tessOk, pushOk) ==
    /\ CanDraw /\ CanFail(pushOk)
    /\ Finish(fill_impl("fill", mesh, tessOk, WhitePixel, pushOk))
    /\ UNCHANGED <<textures, atlas, images, brushes, sources, rc, converter>>

fill_even_odd(mesh, tessOk, pushOk) ==
    /\ CanDraw /\ CanFail(pushOk)
    /\ Finish(fill_impl("fill_even_odd", mesh, tessOk, WhitePixel, pushOk))
    /\ UNCHANGED <<textures, atlas, images, brushes, sources, rc, converter>>

stroke(mesh, tessOk, pushOk) ==
    /\ CanDraw /\ CanFail(pushOk)
    /\ Finish(stroke_impl("stroke", FALSE, mesh, tessOk, WhitePixel, pushOk))
    /\ UNCHANGED <<textures, atlas, images, brushes, sources, rc, converter>>

stroke_styled(dashed, mesh, tessOk, pushOk) ==
    /\ CanDraw /\ CanFail(pushOk)
    /\ Finish(stroke_impl("stroke_styled", dashed, mesh, tessOk, WhitePixel, pushOk))
    /\ UNCHANGED <<textures, atlas, images, brushes, sources, rc, converter>>

\* clear(region, color): without a region and without a mask the backend
\* clears the target; otherwise one rectangle is filled.
clear(region, pushOk) ==
    /\ CanDraw /\ CanFail(pushOk)
    /\ IF ~region /\ ~Top.mask.present
       THEN Finish(EarlyReturn("Ok"))
       ELSE Finish(fill_rects("clear", 1, WhitePixel, pushOk))
    /\ UNCHANGED <<textures, atlas, images, brushes, sources, rc, converter>>

blurred_rect ==
    /\ ~aborted
    /\ Finish(EarlyReturn("NotSupported"))
    /\ UNCHANGED <<textures, atlas, images, brushes, sources, rc, converter>>

(***************************************************************************)
(* The glyph atlas.  A glyph is its cache key, its size in the atlas and   *)
(* what its font yields: whether the font data parses and whether it has   *)
(* an outline for the glyph.                                               *)
(***************************************************************************)
\* GpuContext::max_texture_size(): the size of the atlas texture.
max_texture_size == <<2, 1>>

Glyph(key, fontOk, hasOutline) ==
    [cache_key |-> key, w |-> 1, font_size |-> 1, font_ok |-> fontOk, has_outline |-> hasOutline]

GlyphA == Glyph("a", TRUE, TRUE)
GlyphB == Glyph("b", TRUE, TRUE)
GlyphC == Glyph("c", TRUE, TRUE)
\* A glyph the font has no outline for, and one whose font data does not parse.
Tofu == Glyph("tofu", TRUE, FALSE)
Broken == Glyph("broken", FALSE, TRUE)

Overlap(r, q) == r.x0 < q.x1 /\ q.x0 < r.x1 /\ r.y0 < q.y1 /\ q.y0 < r.y1

\* The regions of the atlas of size w x h that are free in allocator a.
FreeRegions(a, w, h) ==
    {r \in {[x0 |-> x, y0 |-> y, x1 |-> x + w, y1 |-> y + h] :
                x \in 0..(max_texture_size[1] - 1), y \in 0..(max_texture_size[2] - 1)} :
        /\ r.x1 <= max_texture_size[1]
        /\ r.y1 <= max_texture_size[2]
        /\ \A q \in a : ~Overlap(r, q)}

\* AtlasAllocator::allocate (etagere), a black box: the first free region.
allocate(a, w, h) ==
    LET free == FreeRegions(a, w, h)
    IN  IF free = {}
        THEN [some |-> FALSE, rectangle |-> [x0 |-> 0, y0 |-> 0, x1 |-> 0, y1 |-> 0]]
        ELSE [some |-> TRUE,
              rectangle |-> CHOOSE r \in free : \A q \in free :
                                r.y0 < q.y0 \/ (r.y0 = q.y0 /\ r.x0 <= q.x0)]

\* The closure alloc_to_rect: each coordinate over the atlas width or height.
alloc_to_rect(alloc) ==
    [x0 |-> <<alloc.x0, max_texture_size[1]>>, y0 |-> <<alloc.y0, max_texture_size[2]>>,
     x1 |-> <<alloc.x1, max_texture_size[1]>>, y1 |-> <<alloc.y1, max_texture_size[2]>>]

NoRect == alloc_to_rect([x0 |-> 0, y0 |-> 0, x1 |-> 0, y1 |-> 0])

\* The pixels of the atlas texture inside region r.
AtlasPixels(r) ==
    {px \in (0..(max_texture_size[1] - 1)) \X (0..(max_texture_size[2] - 1)) :
        r.x0 <= px[1] /\ px[1] < r.x1 /\ r.y0 <= px[2] /\ px[2] < r.y1}

\* A failed uv_rect call that keeps a region of the atlas allocated.
UvFailedLeaking(a, err) ==
    LET alloc == allocate(a.allocator, 1, 1)
    IN  [result |-> err, rect |-> NoRect,
         atlas |-> IF alloc.some THEN [a EXCEPT !.allocator = @ \cup {alloc.rectangle}] ELSE a,
         written |-> {}]

\* A uv_rect call that failed with err, before the atlas was touched.
UvFailed(a, err) == [result |-> err, rect |-> NoRect, atlas |-> a, written |-> {}]

\* uv_rect that takes the vacant branch whether or not the key is cached.
uv_rect_uncached(a, glyph) ==
    IF FALSE
    THEN [result |-> "Ok", rect |-> alloc_to_rect(a.glyphs[glyph.cache_key]),
          atlas |-> a, written |-> {}]
    ELSE IF ~glyph.font_ok THEN UvFailed(a, "BackendError")
    ELSE IF ~glyph.has_outline THEN UvFailed(a, "FontLoadingFailed")
    ELSE LET alloc == allocate(a.allocator, glyph.w, glyph.font_size)
         IN  IF ~alloc.some
             THEN UvFailed(a, "BackendError")
             ELSE [result |-> "Ok", rect |-> alloc_to_rect(alloc.rectangle),
                   atlas |-> [a EXCEPT !.glyphs = (glyph.cache_key :> alloc.rectangle) @@ a.glyphs,
                                       !.allocator = a.allocator \cup {alloc.rectangle}],
                   written |-> AtlasPixels(alloc.rectangle)]

\* uv_rect whose insert drops the glyphs recorded before.
uv_rect_forget(a, glyph) ==
    IF glyph.cache_key \in DOMAIN a.glyphs
    THEN [result |-> "Ok", rect |-> alloc_to_rect(a.glyphs[glyph.cache_key]),
          atlas |-> a, written |-> {}]
    ELSE IF ~glyph.font_ok THEN UvFailed(a, "BackendError")
    ELSE IF ~glyph.has_outline THEN UvFailed(a, "FontLoadingFailed")
    ELSE LET alloc == allocate(a.allocator, glyph.w, glyph.font_size)
         IN  IF ~alloc.some
             THEN UvFailed(a, "BackendError")
             ELSE [result |-> "Ok", rect |-> alloc_to_rect(alloc.rectangle),
                   atlas |-> [a EXCEPT !.glyphs = (glyph.cache_key :> alloc.rectangle),
                                       !.allocator = a.allocator \cup {alloc.rectangle}],
                   written |-> AtlasPixels(alloc.rectangle)]

\* Atlas::uv_rect.  written: the atlas texture pixels write_subtexture wrote.
uv_rect(a, glyph) ==
    IF glyph.cache_key \in DOMAIN a.glyphs
    THEN [result |-> "Ok", rect |-> alloc_to_rect(a.glyphs[glyph.cache_key]),
          atlas |-> a, written |-> {}]
    ELSE IF ~glyph.font_ok THEN UvFailed(a, "BackendError")
    ELSE IF ~glyph.has_outline THEN UvFailed(a, "FontLoadingFailed")
    ELSE LET alloc == allocate(a.allocator, glyph.w, glyph.font_size)
         IN  IF ~alloc.some
             THEN UvFailed(a, "BackendError")
             ELSE [result |-> "Ok", rect |-> alloc_to_rect(alloc.rectangle),
                   atlas |-> [a EXCEPT !.glyphs = (glyph.cache_key :> alloc.rectangle) @@ a.glyphs,
                                       !.allocator = a.allocator \cup {alloc.rectangle}],
                   written |-> AtlasPixels(alloc.rectangle)]

\* GpuContext::write_texture / write_subtexture: pixels px of handle h are written.
WriteTexture(tex, h, px) ==
    IF px = {} THEN tex
    ELSE [tex EXCEPT ![h] = [written |-> TRUE, data |-> tex[h].data \cup px]]

(***************************************************************************)
(* RenderContext::draw_text.  The glyphs of the layout are looked up in    *)
(* order while fill_rects collects the rectangles; a glyph whose lookup    *)
(* fails is left out.                                                      *)
(***************************************************************************)
RECURSIVE LookupAll(_, _)
LookupAll(a, glyphs) ==
    IF glyphs = <<>>
    THEN [atlas |-> a, rects |-> <<>>, written |-> {}]
    ELSE LET r == uv_rect(a, Head(glyphs))
             rest == LookupAll(r.atlas, Tail(glyphs))
         IN  [atlas |-> rest.atlas,
              rects |-> IF r.result = "Ok" THEN <<r.rect>> \o rest.rects ELSE rest.rects,
              written |-> r.written \cup rest.written]

\* A guard that does not put the atlas back.
RestoreAtlasNone(a) == a

\* RestoreAtlas::drop: the atlas taken out of the Source is put back.
RestoreAtlas(a) == [a EXCEPT !.some = TRUE]

draw_text(layout, pushOk) ==
    /\ CanDraw /\ CanFail(pushOk)
    /\ atlas.some
    /\ LET found == LookupAll([atlas EXCEPT !.some = FALSE], layout)
       IN  /\ Finish(fill_rects("draw_text", Len(found.rects), AtlasTexture, pushOk))
           /\ atlas' = RestoreAtlas(found.atlas)
           /\ LET held == RcClone(rc, AtlasTexture)
                  released == RcDrop(held, WriteTexture(textures, AtlasTexture, found.written),
                                     AtlasTexture)
              IN  /\ rc' = released.rc
                  /\ textures' = released.textures
    /\ UNCHANGED <<images, brushes, sources, converter>>

(***************************************************************************)
(* RenderContext::make_image, draw_image and draw_image_area.              *)
(***************************************************************************)
make_image(width, height, buflen, createOk) ==
    /\ ~aborted
    /\ IF ~createOk
       THEN /\ ret' = "BackendError"
            /\ UNCHANGED <<aborted, textures, images, rc>>
       ELSE IF width * height > (buflen \div 4) + 1
       THEN \* &buf[..width * height] is out of range: the slice panics, and the
            \* texture just created is deleted as the call unwinds.
            /\ ret' = "Panic"
            /\ aborted' = TRUE
            /\ textures' = drop(from_raw(NewTexture), CreateTexture(NewTexture)).textures
            /\ UNCHANGED <<images, rc>>
       ELSE /\ ret' = "Ok"
            /\ textures' = WriteTexture(CreateTexture(NewTexture), NewTexture,
                                        (0..(width - 1)) \X (0..(height - 1)))
            /\ images' = images \cup {NewTexture}
            /\ rc' = (NewTexture :> 1) @@ rc
            /\ UNCHANGED aborted
    /\ UNCHANGED <<state, status, vertices, indices, pushed, atlas, brushes, sources, converter, saved>>

\* Image::clone: one more Image over the same texture.
clone_image(image) ==
    /\ ~aborted
    /\ image \in images
    /\ rc[image] < MaxHolders
    /\ rc' = RcClone(rc, image)
    /\ ret' = "Image"
    /\ UNCHANGED <<state, status, aborted, vertices, indices, pushed, textures, atlas,
                   images, brushes, sources, converter, saved>>

\* The caller drops one of its Images over the texture.
drop_image(image) ==
    /\ ~aborted
    /\ image \in images
    /\ LET r == RcDrop(rc, textures, image)
       IN  /\ rc' = r.rc
           /\ textures' = r.textures
           /\ images' = IF image \in DOMAIN r.rc THEN images ELSE images \ {image}
    /\ ret' = "Unit"
    /\ UNCHANGED <<state, status, aborted, vertices, indices, pushed, atlas, brushes, sources,
                   converter, saved>>

draw_image_area(image, pushOk) ==
    /\ CanDraw /\ CanFail(pushOk)
    /\ image \in images
    /\ Finish(fill_rects("draw_image_area", 1, image, pushOk))
    /\ UNCHANGED <<textures, atlas, images, brushes, sources, rc, converter>>

\* draw_image is draw_image_area over the whole image.
draw_image(image, pushOk) ==
    /\ CanDraw /\ CanFail(pushOk)
    /\ image \in images
    /\ Finish(fill_rects("draw_image", 1, image, pushOk))
    /\ UNCHANGED <<textures, atlas, images, brushes, sources, rc, converter>>

(***************************************************************************)
(* RenderContext::clip.                                                    *)
(***************************************************************************)
\* A new Mask that is not marked dirty.
NewMaskClean(h, cov) == [present |-> TRUE, texture |-> h, mask |-> cov, dirty |-> FALSE]

\* The Mask clip installs on a state that has none.
NewMask(h, cov) == [present |-> TRUE, texture |-> h, mask |-> cov, dirty |-> TRUE]

\* The path set as the mask's coverage instead of intersected into it.
Replaced(m, cov) == [m EXCEPT !.mask = cov]

\* The Mask after clip intersected a path into it.
Intersected(m, cov) == [m EXCEPT !.mask = m.mask \cap cov]

\* clip that installs the mask although its texture could not be created.
clip_half_built(shape, createOk) ==
    LET cov == Coverage(TransformShape(Top.transform, shape))
    IN  /\ ~aborted
        /\ ret' = "Unit"
        /\ IF Top.mask.present
           THEN /\ state' = WithTop([Top EXCEPT !.mask = Intersected(Top.mask, cov)])
                /\ UNCHANGED <<status, textures>>
           ELSE IF ~createOk
           THEN /\ status' = Record(status, "BackendError")
                /\ state' = WithTop([Top EXCEPT !.mask = NewMask(WhitePixel, cov)])
                /\ UNCHANGED textures
           ELSE /\ state' = WithTop([Top EXCEPT !.mask = NewMask(NewTexture, cov)])
                /\ textures' = CreateTexture(NewTexture)
                /\ UNCHANGED status
        /\ UNCHANGED <<aborted, vertices, indices, pushed, atlas, images, brushes, sources, rc, converter, saved>>

clip(shape, createOk) ==
    LET cov == Coverage(TransformShape(Top.transform, shape))
    IN  /\ ~aborted
        /\ ret' = "Unit"
        /\ IF Top.mask.present
           THEN /\ state' = WithTop([Top EXCEPT !.mask = Intersected(Top.mask, cov)])
                /\ UNCHANGED <<status, textures>>
           ELSE IF ~createOk
           THEN /\ status' = Record(status, "BackendError")
                /\ UNCHANGED <<state, textures>>
           ELSE /\ state' = WithTop([Top EXCEPT !.mask = NewMask(NewTexture, cov)])
                /\ textures' = CreateTexture(NewTexture)
                /\ UNCHANGED status
        /\ UNCHANGED <<aborted, vertices, indices, pushed, atlas, images, brushes, sources, rc, converter, saved>>

(***************************************************************************)
(* RenderContext::finish.                                                  *)
(***************************************************************************)
finish(flushOk) ==
    /\ ~aborted
    /\ ret' = IF flushOk THEN "Ok" ELSE "BackendError"
    /\ UNCHANGED <<state, status, aborted, vertices, indices, pushed, textures, atlas, images, brushes, sources, rc, converter, saved>>

(***************************************************************************)
(* Brushes::fetch_or_create_shader.  vertexOk, fragmentOk and linkOk are   *)
(* the answers of the GL driver to the two Shader::new calls and to        *)
(* Program::with_vertex_and_fragment.  ret is the program returned.        *)
(***************************************************************************)
\* The Program handed back, as the caller sees it: the n-th program linked.
ProgramName(n) == ToString(n)

\* fetch_or_create_shader that never looks into the cache.
fetch_or_create_shader_uncached(lookup_key, vertexOk, fragmentOk, linkOk) ==
    /\ ~aborted
    /\ brushes.compiles + 2 <= MaxCompiles
    /\ IF ~vertexOk
       THEN /\ ret' = "Error"
            /\ brushes' = [brushes EXCEPT !.compiles = @ + 1, !.failed = {lookup_key}]
            /\ UNCHANGED aborted
       ELSE IF Unfinished(lookup_key.input_type)
       THEN /\ ret' = "Panic"
            /\ aborted' = TRUE
            /\ brushes' = [brushes EXCEPT !.compiles = @ + 1]
       ELSE IF ~fragmentOk \/ ~linkOk
       THEN /\ ret' = "Error"
            /\ brushes' = [brushes EXCEPT !.compiles = @ + 2, !.failed = {lookup_key}]
            /\ UNCHANGED aborted
       ELSE /\ ret' = ProgramName(brushes.programs + 1)
            /\ brushes' = [shaders |-> (lookup_key :> (brushes.programs + 1)) @@ brushes.shaders,
                           compiles |-> brushes.compiles + 2,
                           programs |-> brushes.programs + 1,
                           failed |-> brushes.failed \ {lookup_key}]
            /\ UNCHANGED aborted
    /\ UNCHANGED <<state, status, vertices, indices, pushed, textures, atlas, images, rc, converter, sources, saved>>

\* fetch_or_create_shader that fills the entry before the program is linked.
fetch_or_create_shader_eager(lookup_key, vertexOk, fragmentOk, linkOk) ==
    /\ ~aborted
    /\ lookup_key \in DOMAIN brushes.shaders \/ brushes.compiles + 2 <= MaxCompiles
    /\ IF lookup_key \in DOMAIN brushes.shaders
       THEN /\ ret' = ProgramName(brushes.shaders[lookup_key])
            /\ UNCHANGED <<brushes, sources, aborted>>
       ELSE IF ~vertexOk
       THEN /\ ret' = "Error"
            /\ brushes' = [brushes EXCEPT !.compiles = @ + 1, !.failed = {lookup_key}]
            /\ UNCHANGED aborted
       ELSE IF Unfinished(lookup_key.input_type)
       THEN /\ ret' = "Panic"
            /\ aborted' = TRUE
            /\ brushes' = [brushes EXCEPT !.compiles = @ + 1]
       ELSE IF ~fragmentOk \/ ~linkOk
       THEN /\ ret' = "Error"
            /\ brushes' = [brushes EXCEPT !.compiles = @ + 2, !.failed = {lookup_key},
                                   !.shaders = (lookup_key :> 0) @@ brushes.shaders]
            /\ UNCHANGED aborted
       ELSE /\ ret' = ProgramName(brushes.programs + 1)
            /\ brushes' = [shaders |-> (lookup_key :> (brushes.programs + 1)) @@ brushes.shaders,
                           compiles |-> brushes.compiles + 2,
                           programs |-> brushes.programs + 1,
                           failed |-> brushes.failed \ {lookup_key}]
            /\ UNCHANGED aborted
    /\ UNCHANGED <<state, status, vertices, indices, pushed, textures, atlas, images, rc, converter, sources, saved>>

fetch_or_create_shader(lookup_key, vertexOk, fragmentOk, linkOk) ==
    /\ ~aborted
    /\ lookup_key \in DOMAIN brushes.shaders \/ brushes.compiles + 2 <= MaxCompiles
    /\ IF lookup_key \in DOMAIN brushes.shaders
       THEN /\ ret' = ProgramName(brushes.shaders[lookup_key])
            /\ UNCHANGED <<brushes, sources, aborted>>
       ELSE IF ~vertexOk
       THEN /\ ret' = "Error"
            /\ brushes' = [brushes EXCEPT !.compiles = @ + 1, !.failed = {lookup_key}]
            /\ UNCHANGED aborted
       ELSE IF Unfinished(lookup_key.input_type)
       THEN /\ ret' = "Panic"
            /\ aborted' = TRUE
            /\ brushes' = [brushes EXCEPT !.compiles = @ + 1]
       ELSE IF ~fragmentOk \/ ~linkOk
       THEN /\ ret' = "Error"
            /\ brushes' = [brushes EXCEPT !.compiles = @ + 2, !.failed = {lookup_key}]
            /\ UNCHANGED aborted
       ELSE /\ ret' = ProgramName(brushes.programs + 1)
            /\ brushes' = [shaders |-> (lookup_key :> (brushes.programs + 1)) @@ brushes.shaders,
                           compiles |-> brushes.compiles + 2,
                           programs |-> brushes.programs + 1,
                           failed |-> brushes.failed \ {lookup_key}]
            /\ UNCHANGED aborted
    /\ UNCHANGED <<state, status, vertices, indices, pushed, textures, atlas, images, rc, converter, sources, saved>>

(***************************************************************************)
(* PathConverter::next, as Flatten drives it: el is what the input yields. *)
(* An edge element met while no subpath is open panics at the expect.      *)
(***************************************************************************)
\* The kind of the first element of the input, once el has been taken.
FirstFed(el) == IF converter.fed = 0 THEN el.el ELSE converter.head

next(el) ==
    /\ ~aborted
    /\ ~converter.finished
    /\ converter.fused => el = NoElement
    /\ el # NoElement => converter.fed < MaxPath
    /\ IF el = NoElement
       THEN LET c == close(converter, FALSE)
            IN  /\ converter' = [c.this EXCEPT !.fused = TRUE,
                                               !.finished = (c.out = <<>>),
                                               !.events = @ \o c.out]
                /\ UNCHANGED <<aborted, ret>>
       ELSE IF el.el = "MoveTo"
       THEN LET c == close(converter, FALSE)
            IN  /\ converter' = [c.this EXCEPT !.first = SomePoint(el.pt),
                                               !.last = SomePoint(el.pt),
                                               !.fed = @ + 1, !.head = FirstFed(el),
                                               !.events = @ \o c.out \o <<Begin(el.pt)>>]
                /\ UNCHANGED <<aborted, ret>>
       ELSE IF el.el = "ClosePath"
       THEN LET c == close(converter, TRUE)
            IN  /\ converter' = [c.this EXCEPT !.fed = @ + 1, !.head = FirstFed(el), !.events = @ \o c.out]
                /\ UNCHANGED <<aborted, ret>>
       ELSE IF ~converter.last.some
       THEN /\ converter' = [converter EXCEPT !.needs_close = TRUE, !.fed = @ + 1, !.head = FirstFed(el)]
            /\ aborted' = TRUE
            /\ ret' = "Panic"
       ELSE /\ converter' = [converter EXCEPT !.needs_close = TRUE,
                                              !.last = SomePoint(el.pt),
                                              !.fed = @ + 1, !.head = FirstFed(el),
                                              !.events = Append(@, EdgeEvent(el, converter.last.pt))]
            /\ UNCHANGED <<aborted, ret>>
    /\ UNCHANGED <<state, status, vertices, indices, pushed, textures, atlas, images,
                   brushes, sources, rc, saved>>

(***************************************************************************)
(* RenderContext::gradient, and a fill whose brush is one of piet's        *)
(* gradients: piet's make_brush for a gradient calls gradient() and        *)
(* expects a brush, so the call panics before fill_impl is reached.        *)
(***************************************************************************)
gradient ==
    /\ ~aborted
    /\ ret' = "Unimplemented"
    /\ UNCHANGED <<state, status, aborted, vertices, indices, pushed, textures, atlas,
                   images, brushes, sources, rc, converter, saved>>

fill_with_gradient ==
    /\ ~aborted
    /\ ret' = "Panic"
    /\ aborted' = TRUE
    /\ UNCHANGED <<state, status, vertices, indices, pushed, textures, atlas,
                   images, brushes, sources, rc, converter, saved>>

(***************************************************************************)
(* Source::from_rc.  whiteOk, vboOk and atlasOk are the context's answers  *)
(* to the three create calls.  A `?` that returns early drops the fields   *)
(* built so far, last built first.  The atlas of a Source that is not      *)
(* drawn with stays empty and is not modelled further.                     *)
(***************************************************************************)
from_rc(whiteOk, vboOk, atlasOk) ==
    /\ ~aborted
    /\ Cardinality(sources.live) < MaxSources
    /\ LET white == NewTexture
           tex1 == WriteTexture(CreateTexture(white), white, {<<0, 0>>})
           vbo == NewBuffer
           atl == NewTextureIn(tex1)
           dv == drop_vbo(from_raw(vbo), sources.vbos \cup {vbo})
           dw == drop(from_raw(white), tex1)
       IN  IF ~whiteOk
           THEN /\ ret' = "BackendError"
                /\ sources' = [sources EXCEPT !.log = <<>>]
                /\ UNCHANGED <<textures, rc>>
           ELSE IF ~vboOk
           THEN /\ ret' = "BackendError"
                /\ textures' = dw.textures
                /\ sources' = [sources EXCEPT
                       !.log = <<Call("create_texture", white)>>
                                   \o Calls("delete_texture", dw.deleted)]
                /\ UNCHANGED rc
           ELSE IF ~atlasOk
           THEN /\ ret' = "BackendError"
                /\ textures' = dw.textures
                /\ sources' = [sources EXCEPT
                       !.vbos = dv.vbos,
                       !.log = <<Call("create_texture", white),
                                 Call("create_vertex_buffer", vbo)>>
                                   \o Calls("delete_vertex_buffer", dv.deleted)
                                   \o Calls("delete_texture", dw.deleted)]
                /\ UNCHANGED rc
           ELSE /\ ret' = "Source"
                /\ textures' = (atl :> Unwritten) @@ tex1
                /\ rc' = (atl :> 1) @@ rc
                /\ sources' = [live |-> sources.live \cup
                                   {[white_pixel |-> white, vbo |-> vbo, atlas |-> atl]},
                               vbos |-> sources.vbos \cup {vbo},
                               log |-> <<Call("create_texture", white),
                                         Call("create_vertex_buffer", vbo),
                                         Call("create_texture", atl)>>]
    /\ UNCHANGED <<state, status, aborted, vertices, indices, pushed, atlas, images,
                   brushes, converter, saved>>

\* The owner drops one of the other Sources: its fields are dropped in turn.
drop_source(s) ==
    /\ ~aborted
    /\ s \in sources.live
    /\ LET dw == drop(from_raw(s.white_pixel), textures)
           dv == drop_vbo(from_raw(s.vbo), sources.vbos)
           da == RcDrop(rc, dw.textures, s.atlas)
       IN  /\ textures' = da.textures
           /\ rc' = da.rc
           /\ sources' = [sources EXCEPT !.live = @ \ {s}, !.vbos = dv.vbos]
    /\ ret' = "Unit"
    /\ UNCHANGED <<state, status, aborted, vertices, indices, pushed, atlas, images,
                   brushes, converter, saved>>

(***************************************************************************)
(* The specifications: the context driven by callers that use a part of    *)
(* the API each.                                                           *)
(***************************************************************************)
\* A caller that saves, restores, transforms and clips.
NextStack ==
    \/ save
    \/ restore
    \/ \E m \in Transforms : transform(m)
    \/ clip(RectA, TRUE)

SpecStack == Init /\ [][NextStack]_vars

\* A caller that clips, saves, restores and draws.
NextClip ==
    \/ save
    \/ restore
    \/ \E s \in Shapes, ok \in BOOLEAN : clip(s, ok)
    \/ fill(Quad, TRUE, TRUE)
    \/ \E r \in BOOLEAN : clear(r, TRUE)
    \/ Status

SpecClip == Init /\ [][NextClip]_vars

\* The text layouts the caller draws.
Layouts == {<<GlyphA>>, <<Tofu, GlyphA>>}

\* A caller that draws and polls the status, and makes one Image.
NextDraw ==
    \/ Status
    \/ \E ok \in BOOLEAN : clip(RectA, ok)
    \/ \E g \in Meshes, t \in BOOLEAN, p \in BOOLEAN : fill(g, t, p)
    \/ \E g \in Meshes, t \in BOOLEAN, p \in BOOLEAN : fill_even_odd(g, t, p)
    \/ \E g \in Meshes, t \in BOOLEAN, p \in BOOLEAN : stroke(g, t, p)
    \/ \E d \in BOOLEAN, g \in Meshes, t \in BOOLEAN, p \in BOOLEAN : stroke_styled(d, g, t, p)
    \/ \E r \in BOOLEAN, p \in BOOLEAN : clear(r, p)
    \/ blurred_rect
    \/ \E ok \in BOOLEAN : finish(ok)
    \/ images = {} /\ \E ok \in BOOLEAN : make_image(1, 1, 4, ok)
    \/ \E i \in images, p \in BOOLEAN : draw_image(i, p)
    \/ \E i \in images, p \in BOOLEAN : draw_image_area(i, p)
    \/ \E l \in Layouts, p \in BOOLEAN : draw_text(l, p)

SpecDraw == Init /\ [][NextDraw]_vars

\* The text layouts of a caller that draws text only.
AtlasLayouts == {<<GlyphA>>, <<GlyphB>>, <<GlyphC>>, <<GlyphA, GlyphB, GlyphA>>,
                 <<Tofu, GlyphB, Broken, GlyphA>>, <<Tofu>>}

\* A caller that draws text, clips and polls the status.
NextAtlas ==
    \/ \E l \in AtlasLayouts, p \in BOOLEAN : draw_text(l, p)
    \/ clip(RectA, TRUE)
    \/ Status

SpecAtlas == Init /\ [][NextAtlas]_vars

\* The shader keys piet-glow looks up.
ShaderKeys == ShaderKey

\* A caller that draws, with and without failures, between calls of the
\* context's other operations, and polls the status.
NextStatus ==
    \/ Status
    \/ \E t \in BOOLEAN, p \in BOOLEAN : fill(Quad, t, p)
    \/ \E d \in BOOLEAN : stroke_styled(d, Quad, TRUE, TRUE)
    \/ Len(state) < 2 /\ save
    \/ restore
    \/ transform(Translate1)
    \/ \E ok \in BOOLEAN : finish(ok)
    \/ images = {} /\ \E ok \in BOOLEAN : make_image(1, 1, 4, ok)

SpecStatus == Init /\ [][NextStatus]_vars

\* An owner that builds and drops Sources on the context while the
\* RenderContext makes and drops an Image.
NextSource ==
    \/ \E w \in BOOLEAN, v \in BOOLEAN, a \in BOOLEAN : from_rc(w, v, a)
    \/ \E s \in sources.live : drop_source(s)
    \/ images = {} /\ make_image(1, 1, 4, TRUE)
    \/ \E i \in images : drop_image(i)

SpecSource == Init /\ [][NextSource]_vars

\* piet-glow looking up shaders for its draws.
NextBrush ==
    \E k \in ShaderKeys, v \in BOOLEAN, f \in BOOLEAN, l \in BOOLEAN :
        fetch_or_create_shader(k, v, f, l)

SpecBrush == Init /\ [][NextBrush]_vars

\* A caller that makes, clones and drops Images, draws text, clips inside one
\* save and asks for gradients.
NextResource ==
    \/ Cardinality(images) < MaxHolders /\ \E ok \in BOOLEAN : make_image(1, 1, 4, ok)
    \/ Cardinality(images) < MaxHolders /\ make_image(2, 2, 4, TRUE)
    \/ \E i \in images : clone_image(i)
    \/ \E i \in images : drop_image(i)
    \/ draw_text(<<GlyphA>>, TRUE)
    \/ clip(RectA, TRUE)
    \/ Len(state) < 2 /\ save
    \/ restore
    \/ gradient
    \/ fill_with_gradient

SpecResource == Init /\ [][NextResource]_vars

\* The tessellator pulling events out of the converter of some path.
NextPath == \E el \in PathEls \cup {NoElement} : next(el)

SpecPath == Init /\ [][NextPath]_vars

(***************************************************************************)
(* The claims.                                                             *)
(***************************************************************************)
\* C1: restore() called while only the base state remains returns
\* StackUnbalance and leaves the stack as it is; the stack holds at least one
\* entry in every reachable state.
C1_RestoreAtBase ==
    /\ [](Len(state) >= 1)
    /\ [][(restore /\ Len(state) = 1) => (ret' = "StackUnbalance" /\ state' = state)]_vars

\* C1 witness: a restore on the base state was refused.
C1_Witness == ret = "StackUnbalance" /\ Len(state) = 1

\* C2: current_transform() right after save() equals current_transform()
\* right before it.
C2_SaveKeepsTransform == [][save => current_transform' = current_transform]_vars

\* Some entry of the stack below the active one holds a clip mask.
EnclosingClip == \E i \in 1..(Len(state) - 1) : state[i].mask.present

\* C3: while a clip made before a save() is on the stack, every draw is
\* submitted with a mask texture other than the white pixel.
C3_ClipAcrossSave ==
    [][(Len(pushed') = Len(pushed) + 1 /\ EnclosingClip)
          => pushed'[Len(pushed')].mask # WhitePixel]_vars

\* C4: the active transform and clip mask after a restore() are those that
\* were active right before the matching save().
C4_RoundTrip ==
    [][(restore /\ Len(state) > 1)
          => /\ Len(saved) = Len(state) - 1
             /\ Top'.transform = saved[Len(saved)].transform
             /\ Top'.mask = saved[Len(saved)].mask]_vars

\* C4 witness: a restore has brought back a base state that carries both a
\* transform and a clip.
C4_Witness ==
    /\ ret = "Ok"
    /\ Len(state) = 1
    /\ Top.mask.present
    /\ Top.transform # IDENTITY

TestPoints == {<<0, 0>>, <<1, 0>>, <<0, 1>>}

\* C5: transform(m) makes the active transform map each point as the old
\* transform followed by m, and changes no other stack entry.
C5_TransformComposes ==
    [][\A m \in Transforms : transform(m) =>
          /\ \A p \in TestPoints :
                AffineApply(current_transform', p)
                    = AffineApply(m, AffineApply(current_transform, p))
          /\ Len(state') = Len(state)
          /\ \A i \in 1..(Len(state) - 1) : state'[i] = state[i]]_vars

\* C5 witness: transform(Translate1); transform(Scale2) has run: the active
\* transform maps x to 2 * (x + 1).
C5_Witness ==
    /\ ret = "Unit"
    /\ current_transform = <<2, 0, 0, 2, 2, 0>>
    /\ current_transform # AffineMul(Translate1, Scale2)

\* C6: once an error is recorded, a later failing operation does not replace
\* it: the accumulator keeps the first error until status() reads it.
C6_FirstErrorWins == [][(status # "Ok" /\ status' # "Ok") => status' = status]_vars

\* C7: status() returns the accumulator and leaves it Ok.
C7_StatusDrains == [][Status => (ret' = status /\ status' = "Ok")]_vars

\* C7 witness: status() has returned a recorded error and reset the accumulator.
C7_Witness == ret = "NotSupported" /\ status = "Ok"

\* The API calls named by C8, and clear.
DrawOps == {"fill", "fill_even_odd", "stroke", "stroke_styled",
            "draw_image", "draw_image_area", "draw_text"}

\* The step is a call of the drawing operation op.
Called(op) ==
    CASE op = "fill" -> \E g \in Meshes, t \in BOOLEAN, p \in BOOLEAN : fill(g, t, p)
      [] op = "fill_even_odd" -> \E g \in Meshes, t \in BOOLEAN, p \in BOOLEAN : fill_even_odd(g, t, p)
      [] op = "stroke" -> \E g \in Meshes, t \in BOOLEAN, p \in BOOLEAN : stroke(g, t, p)
      [] op = "stroke_styled" ->
            \E d \in BOOLEAN, g \in Meshes, t \in BOOLEAN, p \in BOOLEAN : stroke_styled(d, g, t, p)
      [] op = "draw_image" -> \E i \in images, p \in BOOLEAN : draw_image(i, p)
      [] op = "draw_image_area" -> \E i \in images, p \in BOOLEAN : draw_image_area(i, p)
      [] op = "draw_text" -> \E l \in Layouts, p \in BOOLEAN : draw_text(l, p)
      [] op = "clear" -> \E r \in BOOLEAN, p \in BOOLEAN : clear(r, p)

\* C8: a step adds at most one push_buffers call, at the end of the backend's
\* sequence and made by the drawing call of that very step; a drawing call
\* that succeeds adds one; no other call adds any.
C8_SubmissionOrder ==
    [][/\ pushed' # pushed =>
             /\ Len(pushed') = Len(pushed) + 1
             /\ SubSeq(pushed', 1, Len(pushed)) = pushed
             /\ pushed'[Len(pushed')].op \in DrawOps \cup {"clear"}
             /\ Called(pushed'[Len(pushed')].op)
       /\ (pushed' = pushed /\ status' = "Ok" /\ ~aborted') =>
             \A op \in DrawOps : ~Called(op)]_vars

\* C8 witness: two different drawing calls were submitted, in call order.
C8_Witness ==
    /\ Len(pushed) = 2
    /\ pushed[1].op = "draw_text"
    /\ pushed[2].op = "fill"

\* C9: after every drawing operation has returned the shared vertex and index
\* buffers are empty, and every submission carried only the vertices of the
\* call that made it.
C9_BuffersCleared ==
    /\ ~aborted => (vertices = <<>> /\ indices = <<>>)
    /\ \A i \in 1..Len(pushed) : pushed[i].nv = pushed[i].own

\* The backend texture of mask m holds the coverage of m.
Uploaded(m) == textures[m.texture].written /\ textures[m.texture].data = m.mask

\* C10: every clip() leaves the active mask dirty, and a mask whose texture
\* does not hold its coverage is dirty.
C10_ClipMarksDirty ==
    /\ [](\A i \in 1..Len(state) :
             (state[i].mask.present /\ ~Uploaded(state[i].mask)) => state[i].mask.dirty)
    /\ [][\A s \in Shapes, ok \in BOOLEAN :
             (clip(s, ok) /\ Top'.mask.present) => Top'.mask.dirty]_vars

\* C10 witness: a second clip() was intersected into the mask of the first.
C10_Witness ==
    /\ Top.mask.present
    /\ Top.mask.dirty
    /\ Top.mask.mask = Coverage(RectA) \cap Coverage(RectB)
    /\ Top.mask.mask # {}

\* The step is a drawing call of the clipping caller.
ClipDraw == fill(Quad, TRUE, TRUE) \/ (\E r \in BOOLEAN : clear(r, TRUE))

\* C11: a draw issued under a dirty mask writes the mask texture before the
\* submission and leaves the mask clean; a draw under a clean mask writes no
\* texture.
C11_LazyUpload ==
    [][(ClipDraw /\ Top.mask.present) =>
          IF Top.mask.dirty
          THEN /\ ~aborted'
               /\ ~Top'.mask.dirty
               /\ Uploaded(Top'.mask)
               /\ Len(pushed') = Len(pushed) + 1
          ELSE textures' = textures]_vars

\* C12: a fill under a mask of empty coverage (two clips that do not meet)
\* makes one submission with the mask's texture, does not abort and records
\* no error.
C12_EmptyClipDraws ==
    [][(fill(Quad, TRUE, TRUE) /\ Top.mask.present /\ Top.mask.mask = {}) =>
          /\ ~aborted'
          /\ Len(pushed') = Len(pushed) + 1
          /\ pushed'[Len(pushed')].mask = Top.mask.texture
          /\ status' = status]_vars

\* The intersection of two axis-aligned rectangles.
RectMeet(r, q) ==
    [x0 |-> Max2(r.x0, q.x0), y0 |-> Max2(r.y0, q.y0),
     x1 |-> Min2(r.x1, q.x1), y1 |-> Min2(r.y1, q.y1)]

\* C13: clip(s2) on the mask left by clip(s1) gives the coverage of the
\* intersection of the two rectangles, which is also what clip(s2) followed
\* by clip(s1) gives.  (Every clip call returns the unit value.)
C13_ClipOrder ==
    [][(ret' = "Unit" /\ Top.mask.present) =>
          \A s1 \in Shapes, s2 \in Shapes :
              LET d1 == TransformShape(Top.transform, s1)
                  d2 == TransformShape(Top.transform, s2)
              IN  (Top.mask.mask = Coverage(d1) /\ \E ok \in BOOLEAN : clip(s2, ok))
                  => /\ Top'.mask.mask = Coverage(RectMeet(d1, d2))
                     /\ Top'.mask.mask
                          = Intersected(NewMask(Top.mask.texture, Coverage(d2)),
                                        Coverage(d1)).mask]_vars

\* C13 witness: clip(RectA) and clip(RectB) have left the coverage of the
\* rectangle where the two meet.
C13_Witness ==
    /\ ret = "Unit"
    /\ Top.mask.present
    /\ Top.mask.mask = Coverage(RectMeet(RectA, RectB))
    /\ Top.mask.mask # Coverage(RectA)
    /\ Top.mask.mask # Coverage(RectB)
    /\ Top.mask.mask # {}

\* C14: a submission made while the active state has no mask passes the white
\* pixel as mask texture; one made while it has a mask passes that mask's
\* texture.
C14_MaskTexture ==
    [][pushed' # pushed =>
          pushed'[Len(pushed')].mask
              = (IF Top.mask.present THEN Top.mask.texture ELSE WhitePixel)]_vars

\* C14 witness: a draw was submitted from a state without a mask, inside a
\* save() made under a clip.
C14_Witness ==
    /\ Len(pushed) >= 1
    /\ pushed[Len(pushed)].mask = WhitePixel
    /\ ~Top.mask.present
    /\ EnclosingClip

\* The glyphs the text caller's layouts are made of.
AtlasGlyphs == {GlyphA, GlyphB, GlyphC, Tofu, Broken}

\* Every glyph of layout l is in the atlas.
AllCached(l) == \A i \in 1..Len(l) : l[i].cache_key \in DOMAIN atlas.glyphs

\* C15: uv_rect for a cached key returns the recorded rectangle, the same at
\* every later time, without touching the allocator, the map or the texture.
C15_CacheHit ==
    /\ [](\A g \in AtlasGlyphs : g.cache_key \in DOMAIN atlas.glyphs =>
             LET r == uv_rect(atlas, g)
             IN  /\ r.result = "Ok"
                 /\ r.rect = alloc_to_rect(atlas.glyphs[g.cache_key])
                 /\ r.atlas = atlas
                 /\ r.written = {})
    /\ [][\A g \in AtlasGlyphs : g.cache_key \in DOMAIN atlas.glyphs =>
             /\ g.cache_key \in DOMAIN atlas'.glyphs
             /\ uv_rect(atlas', g).rect = uv_rect(atlas, g).rect]_vars
    /\ [][\A l \in AtlasLayouts, p \in BOOLEAN : (draw_text(l, p) /\ AllCached(l)) =>
             (atlas' = atlas /\ textures' = textures)]_vars

\* C15 witness: the layout a, b, a was drawn: its third lookup found the
\* rectangle its first one recorded, and three quads were generated.
C15_Witness ==
    /\ DOMAIN atlas.glyphs = {"a", "b"}
    /\ \E i \in 1..Len(pushed) : pushed[i].op = "draw_text" /\ pushed[i].own = 12

\* Rectangle r lies inside the atlas texture.
InAtlas(r) ==
    /\ 0 <= r.x0 /\ r.x0 < r.x1 /\ r.x1 <= max_texture_size[1]
    /\ 0 <= r.y0 /\ r.y0 < r.y1 /\ r.y1 <= max_texture_size[2]

\* C16: the rectangles recorded for two different keys do not overlap, each
\* lies inside the atlas texture, and a recorded rectangle is never changed
\* or removed.
C16_AtlasRects ==
    /\ [](\A k1 \in DOMAIN atlas.glyphs, k2 \in DOMAIN atlas.glyphs :
             k1 # k2 => ~Overlap(atlas.glyphs[k1], atlas.glyphs[k2]))
    /\ [](\A k \in DOMAIN atlas.glyphs : InAtlas(atlas.glyphs[k]))
    /\ [][\A k \in DOMAIN atlas.glyphs :
             k \in DOMAIN atlas'.glyphs /\ atlas'.glyphs[k] = atlas.glyphs[k]]_vars

\* C16 witness: two glyphs are recorded, side by side.
C16_Witness ==
    /\ Cardinality(DOMAIN atlas.glyphs) = 2
    /\ \E k1 \in DOMAIN atlas.glyphs, k2 \in DOMAIN atlas.glyphs :
          atlas.glyphs[k1].x1 <= atlas.glyphs[k2].x0

\* C17: uv_rect for a glyph that is not cached, whose font yields an outline
\* and for which the allocator has no free region fails with AtlasExhausted.
C17_AtlasExhausted ==
    \A g \in AtlasGlyphs :
        (/\ g.cache_key \notin DOMAIN atlas.glyphs
         /\ g.font_ok /\ g.has_outline
         /\ ~allocate(atlas.allocator, g.w, g.font_size).some)
        => uv_rect(atlas, g).result = "AtlasExhausted"

\* C18: the Source holds its atlas after every call; draw_text, however it
\* ends, leaves the atlas in place with its texture, the regions allocated
\* and the glyphs recorded before the call.
C18_AtlasReturned ==
    /\ [](atlas.some)
    /\ [][\A l \in AtlasLayouts, p \in BOOLEAN : draw_text(l, p) =>
             /\ atlas'.some
             /\ atlas.allocator \subseteq atlas'.allocator
             /\ AtlasTexture \in DOMAIN textures'
             /\ \A k \in DOMAIN atlas.glyphs :
                    k \in DOMAIN atlas'.glyphs /\ atlas'.glyphs[k] = atlas.glyphs[k]]_vars

\* C18 witness: a draw_text call panicked under a clip after it had recorded
\* a glyph, and the atlas is back in the Source.
C18_Witness ==
    /\ aborted
    /\ ret = "Panic"
    /\ pushed = <<>>
    /\ atlas.some
    /\ "a" \in DOMAIN atlas.glyphs

\* C19: the submission of a draw_text call holds four vertices for each glyph
\* of the layout whose lookup succeeded and nothing else, and a glyph whose
\* lookup failed records no error.
C19_SkippedGlyphs ==
    [][\A l \in Layouts, p \in BOOLEAN : (draw_text(l, p) /\ pushed' # pushed) =>
          /\ pushed'[Len(pushed')].nv = 4 * Len(LookupAll(atlas, l).rects)
          /\ p => status' = status]_vars

\* C20: a lookup for a cached key returns the cached program and compiles
\* nothing; a cached entry is never replaced or removed; different keys hold
\* different programs.
C20_ShaderCache ==
    /\ [][\A k \in DOMAIN brushes.shaders, v \in BOOLEAN, f \in BOOLEAN, l \in BOOLEAN :
             fetch_or_create_shader(k, v, f, l) =>
                 /\ ret' = ProgramName(brushes.shaders[k])
                 /\ brushes' = brushes]_vars
    /\ [][\A k \in DOMAIN brushes.shaders :
             k \in DOMAIN brushes'.shaders /\ brushes'.shaders[k] = brushes.shaders[k]]_vars
    /\ [](\A k1 \in DOMAIN brushes.shaders, k2 \in DOMAIN brushes.shaders :
             k1 # k2 => brushes.shaders[k1] # brushes.shaders[k2])

\* C20 witness: the solid shader with and without mask are two entries, and
\* the first program linked was returned again after the second was linked.
C20_Witness ==
    /\ ret = ProgramName(1)
    /\ brushes.programs = 2
    /\ brushes.compiles = 4
    /\ \E k1 \in DOMAIN brushes.shaders, k2 \in DOMAIN brushes.shaders :
          /\ k1.input_type = k2.input_type
          /\ k1.write_to_mask = k2.write_to_mask
          /\ k1.mask_type # k2.mask_type

\* C21: a lookup for the key whose compilation or linking failed last fails
\* again and compiles nothing.
C21_NoRetry ==
    [][\A k \in brushes.failed, v \in BOOLEAN, f \in BOOLEAN, l \in BOOLEAN :
          fetch_or_create_shader(k, v, f, l) =>
              (ret' = "Error" /\ brushes'.compiles = brushes.compiles)]_vars

\* C22: a lookup that ends in a compile or link error leaves the shader map
\* as it was.
C22_NoPartialEntry ==
    [][\A k \in ShaderKeys \ DOMAIN brushes.shaders :
          ~Unfinished(k.input_type) =>
              \A v \in BOOLEAN, f \in BOOLEAN, l \in BOOLEAN :
                  (~(v /\ f /\ l) /\ fetch_or_create_shader(k, v, f, l)) =>
                      (ret' = "Error" /\ brushes'.shaders = brushes.shaders)]_vars

\* C22 witness: with one program cached, a lookup for another key compiled
\* both its shaders and failed.
C22_Witness ==
    /\ ret = "Error"
    /\ brushes.programs = 1
    /\ brushes.compiles = 4
    /\ Cardinality(DOMAIN brushes.shaders) = 1
    /\ \E k \in brushes.failed : k \notin DOMAIN brushes.shaders

\* The handles some live wrapper owns: the white pixel of each Source, the
\* textures behind an Rc, and the mask textures of the states on the stack.
Held ==
    {WhitePixel} \cup DOMAIN rc
        \cup {state[i].mask.texture : i \in {j \in 1..Len(state) : state[j].mask.present}}
        \cup {s.white_pixel : s \in sources.live}

\* C23: a handle is deleted with its wrapper and not before: the live
\* textures are those a wrapper owns; dropping the wrapper of a live handle
\* issues one delete call for it, and dropping that wrapper again issues none.
C23_DeleteOnce ==
    /\ [](DOMAIN textures = Held)
    /\ [](\A h \in DOMAIN textures :
             LET once == drop(from_raw(h), textures)
                 again == drop(once.wrapper, once.textures)
             IN  /\ once.deleted = <<h>>
                 /\ h \notin DOMAIN once.textures
                 /\ again.deleted = <<>>
                 /\ again.textures = once.textures)

\* C23 witness: a wrapper was dropped while a texture created after its own
\* is still alive.
C23_Witness ==
    \E h \in DOMAIN textures : h > AtlasTexture + 1 /\ (h - 1) \notin DOMAIN textures

\* C24: a texture behind an Rc is deleted only by the step that releases its
\* last holder: the atlas texture lives as long as the Source holds it, a
\* draw_text included; a texture with a holder is alive; and dropping one of
\* several Images over a texture leaves the texture as it was.
C24_LastHolder ==
    /\ [](AtlasTexture \in DOMAIN rc /\ AtlasTexture \in DOMAIN textures)
    /\ [](\A h \in DOMAIN rc : rc[h] >= 1 /\ h \in DOMAIN textures)
    /\ [][\A h \in DOMAIN rc :
             h \notin DOMAIN textures' => (rc[h] = 1 /\ h \notin DOMAIN rc')]_vars
    /\ [][\A i \in images :
             (rc[i] > 1 /\ drop_image(i)) =>
                 /\ i \in images'
                 /\ rc'[i] = rc[i] - 1
                 /\ textures' = textures]_vars

\* C24 witness: after a draw_text, an Image has two holders while the texture
\* created before its own has been deleted.
C24_Witness ==
    /\ pushed # <<>>
    /\ \E i \in images :
          /\ rc[i] = MaxHolders
          /\ i > AtlasTexture + 1
          /\ (i - 1) \notin DOMAIN textures

\* C26: a fill with a gradient brush sets the status to Unimplemented and
\* leaves the shared buffers and the submissions as they were.
C26_GradientFill ==
    [][fill_with_gradient =>
          /\ status' = "Unimplemented"
          /\ vertices' = vertices
          /\ indices' = indices
          /\ pushed' = pushed]_vars

\* C25: stroke_styled with a dash pattern stores NotSupported in the status,
\* appends nothing to the shared buffers, submits nothing and writes no
\* texture.
C25_DashedStroke ==
    [][\A g \in Meshes, t \in BOOLEAN, p \in BOOLEAN :
          stroke_styled(TRUE, g, t, p) =>
              /\ status' = "NotSupported"
              /\ ret' = "Unit"
              /\ vertices' = vertices
              /\ indices' = indices
              /\ pushed' = pushed
              /\ textures' = textures]_vars

\* C25 witness: the status holds NotSupported while the geometry of a failed
\* submission before it is still in the shared buffers, and that one
\* submission is all the backend has seen.
C25_Witness ==
    /\ status = "NotSupported"
    /\ ret = "Unit"
    /\ vertices # <<>>
    /\ Len(pushed) = 1

\* The place of the last Begin among the events ev, 0 when there is none.
LastBegin(ev) ==
    LET bs == {b \in 1..Len(ev) : ev[b].type = "Begin"}
    IN  IF bs = {} THEN 0 ELSE CHOOSE b \in bs : \A c \in bs : c <= b

\* The events ev leave a subpath open: a Begin with no End after it.
SubpathOpen(ev) ==
    /\ LastBegin(ev) > 0
    /\ \A k \in (LastBegin(ev) + 1)..Len(ev) : ev[k].type # "End"

Edges == {"Line", "Quadratic", "Cubic"}

\* The first point of the open subpath of ev, and the point its last event
\* leaves the pen at.
SubpathFirst(ev) == ev[LastBegin(ev)].at
SubpathLast(ev) == IF ev[Len(ev)].type \in Edges THEN ev[Len(ev)].to ELSE ev[Len(ev)].at

\* C27: a ClosePath met while a subpath is open emits one End with close
\* set.
C27_CloseEmitsEnd ==
    [][(SubpathOpen(converter.events) /\ next(ClosePath)) =>
          /\ Len(converter'.events) = Len(converter.events) + 1
          /\ converter'.events[Len(converter'.events)].type = "End"
          /\ converter'.events[Len(converter'.events)].close]_vars

\* C28: in the events emitted, a Begin comes only while no subpath is open,
\* an edge or an End only while one is open, and no subpath is open once the
\* stream has ended.
C28_BeginEndPairs ==
    /\ \A i \in 1..Len(converter.events) :
          (converter.events[i].type = "Begin")
              = ~SubpathOpen(SubSeq(converter.events, 1, i - 1))
    /\ converter.finished => ~SubpathOpen(converter.events)

\* C29: an End with close unset comes right after an edge of the subpath it
\* ends, and a MoveTo met right after a Begin emits its own Begin only.
C29_EndNeedsEdge ==
    /\ [](\A i \in 1..Len(converter.events) :
             (converter.events[i].type = "End" /\ ~converter.events[i].close) =>
                 (i > 1 /\ converter.events[i - 1].type \in Edges))
    /\ [][\A q \in Points :
             (/\ converter.events # <<>>
              /\ converter.events[Len(converter.events)].type = "Begin"
              /\ next(MoveTo(q))) =>
                 converter'.events = Append(converter.events, Begin(q))]_vars

\* C29 witness: two Begin events in a row were emitted while needs_close is
\* still set from a subpath before them.
C29_Witness ==
    /\ converter.needs_close
    /\ Len(converter.events) = 4
    /\ converter.events[2].type = "Line"
    /\ converter.events[3].type = "Begin"
    /\ converter.events[4].type = "Begin"

\* Within 0.01 of each other in both coordinates.
Within(p, q) == \A c \in 1..2 : Abs(p[c] - q[c]) * 100 < PerUnit

\* C30: while the open subpath ends within 0.01 of its first point, a
\* ClosePath, a MoveTo or the end of the input emits no End and no edge.
C30_NoClosingEdge ==
    [][\A el \in {ClosePath, NoElement} \cup {MoveTo(q) : q \in Points} :
          (/\ SubpathOpen(converter.events)
           /\ Within(SubpathFirst(converter.events), SubpathLast(converter.events))
           /\ next(el)) =>
              \A i \in (Len(converter.events) + 1)..Len(converter'.events) :
                  converter'.events[i].type = "Begin"]_vars

\* C30 witness: the input ended after a subpath that went from the origin
\* to the point 0.005 off it and was closed, and no End was emitted.
C30_Witness ==
    /\ converter.finished
    /\ converter.fed = 3
    /\ converter.events = <<Begin(Origin), Line(Origin, Near)>>

\* The drawing call made submitted once more, as op, and recorded no error.
Submitted(op) ==
    /\ Len(pushed') = Len(pushed) + 1
    /\ pushed'[Len(pushed')].op = op
    /\ vertices' = <<>>
    /\ indices' = <<>>
    /\ status' = status

\* C31: while the status holds an error, a fill, fill_even_odd or
\* draw_image_area whose tessellation and backend succeed, and whose mask
\* upload does not panic, makes its submission as it would otherwise.
C31_ErrorDoesNotDisable ==
    [][(status # "Ok" /\ ret' = "Unit") =>
          /\ \A g \in Meshes : fill(g, TRUE, TRUE) => Submitted("fill")
          /\ \A g \in Meshes : fill_even_odd(g, TRUE, TRUE) => Submitted("fill_even_odd")
          /\ \A i \in images : draw_image_area(i, TRUE) => Submitted("draw_image_area")]_vars

\* C31 witness: a submission that failed and recorded its error is followed
\* by a fill that was submitted, and the error has not been read.
C31_Witness ==
    /\ status = "BackendError"
    /\ Len(pushed) = 2
    /\ pushed[2].op = "fill"
    /\ vertices = <<>>

\* C32: the status leaves an error only by a call of status(), which hands
\* that error out.
C32_OnlyStatusClears ==
    [][(status # "Ok" /\ status' = "Ok") => (Status /\ ret' = status)]_vars

\* C32 witness: the error of a failed fill is still in the status after a
\* save, a transform, a make_image and a fill that was submitted.
C32_Witness ==
    /\ status = "BackendError"
    /\ Len(state) = 2
    /\ Top.transform # IDENTITY
    /\ images # {}
    /\ Len(pushed) = 2
    /\ vertices = <<>>

\* C33: a shader lookup ends with a program or with an error value for every
\* key; none aborts.
C33_LookupNeverAborts ==
    [][\A k \in ShaderKeys, v \in BOOLEAN, f \in BOOLEAN, l \in BOOLEAN :
          (ret' = "Panic" /\ fetch_or_create_shader(k, v, f, l)) => FALSE]_vars

C35_NoAbortAfterMove ==
    converter.head = "MoveTo" => ~aborted

\* C36: a uv_rect call that fails leaves the glyph map and the allocator as
\* they were and writes no pixel, and the same call made again fails the
\* same way; a draw_text none of whose glyphs is found leaves the atlas and
\* every texture as they were.
C36_FailedLookup ==
    /\ [](\A g \in AtlasGlyphs :
             LET r == uv_rect(atlas, g)
             IN  r.result # "Ok" =>
                     /\ r.atlas = atlas
                     /\ r.written = {}
                     /\ g.cache_key \notin DOMAIN r.atlas.glyphs
                     /\ uv_rect(r.atlas, g) = r)
    /\ [][\A l \in AtlasLayouts, p \in BOOLEAN :
             ((\A i \in 1..Len(l) : uv_rect(atlas, l[i]).result # "Ok") /\ draw_text(l, p)) =>
                 (atlas' = atlas /\ textures' = textures)]_vars

\* C36 witness: with the atlas full, a draw_text found none of its glyphs
\* and submitted no rectangle of its own, and glyph c still has no place.
C36_Witness ==
    /\ Cardinality(atlas.allocator) = 2
    /\ pushed # <<>>
    /\ pushed[Len(pushed)].op = "draw_text"
    /\ pushed[Len(pushed)].own = 0
    /\ uv_rect(atlas, GlyphC).result = "BackendError"

\* C37: a clip on a state without a mask whose texture cannot be created
\* stores BackendError in the status and leaves the state stack, with its
\* transforms and masks, and the textures as they were.
C37_ClipCreateFails ==
    [][\A s \in Shapes :
          (~Top.mask.present /\ clip(s, FALSE)) =>
              /\ status' = "BackendError"
              /\ state' = state
              /\ ~state'[Len(state')].mask.present
              /\ textures' = textures]_vars

\* C37 witness: the status holds the error of a failed clip while the active
\* state, saved inside a clipped one, has no mask.
C37_Witness ==
    /\ status = "BackendError"
    /\ Len(state) = 2
    /\ ~Top.mask.present
    /\ state[1].mask.present

\* In the calls log, each handle created was deleted once, after its
\* creation, by the delete call of its kind, and nothing else was deleted.
Balanced(log) ==
    /\ \A i \in 1..Len(log) :
          \A kind \in {"texture", "vertex_buffer"} :
              log[i].call = "create_" \o kind =>
                  Cardinality({j \in 1..Len(log) :
                      log[j] = Call("delete_" \o kind, log[i].handle)}) = 1
    /\ \A j \in 1..Len(log) :
          \A kind \in {"texture", "vertex_buffer"} :
              log[j].call = "delete_" \o kind =>
                  \E i \in 1..(j - 1) : log[i] = Call("create_" \o kind, log[j].handle)

\* C38: a from_rc one of whose create calls fails returns BackendError, and
\* every handle it created has been deleted once: the context holds the
\* textures and vertex buffers it held before.
C38_FailedConstruction ==
    [][\A w \in BOOLEAN, v \in BOOLEAN, a \in BOOLEAN :
          (~(w /\ v /\ a) /\ from_rc(w, v, a)) =>
              /\ ret' = "BackendError"
              /\ Balanced(sources'.log)
              /\ DOMAIN textures' = DOMAIN textures
              /\ sources'.vbos = sources.vbos
              /\ sources'.live = sources.live
              /\ rc' = rc]_vars

\* C38 witness: with another Source alive, a from_rc failed at its atlas
\* texture, after creating and deleting a texture and a vertex buffer.
C38_Witness ==
    /\ ret = "BackendError"
    /\ sources.live # {}
    /\ Len(sources.log) = 4

\* C39: make_image returns Ok or an error for every size and buffer, leaves
\* the status alone, and leaves no texture behind when it fails.
C39_MakeImageReturns ==
    [][\A d \in 1..2, ok \in BOOLEAN :
          make_image(d, d, 4, ok) =>
              /\ ret' \in {"Ok", "BackendError"}
              /\ ~aborted'
              /\ status' = status
              /\ ret' # "Ok" => DOMAIN textures' = DOMAIN textures]_vars

=============================================================================
